---- MODULE Spec2Model ----
(***************************************************************************)
(* Orders of magnitude (src/ver_1_0): the Expression hierarchy, its        *)
(* normaliser simp, the structural equality defeq, the Estimate relation   *)
(* and the Littlewood-Paley property builder.                              *)
(*                                                                         *)
(* Every Python object is a record with the same five fields, so that any  *)
(* two values can be compared:                                             *)
(*   tag   the class ("Variable", "Constant", "Max", "Min", "Add", "Mul",  *)
(*         "Div", "Power", "Estimate", "And", "Or", "Bool") or the         *)
(*         exception raised ("AssertionError", "RecursionError")           *)
(*   name  Variable.name, Estimate.operator                                *)
(*   value Constant.value, Bool's truth value (1 / 0)                      *)
(*   ops   operands / summands / factors / <<numerator, denominator>> /    *)
(*         <<base>> / <<left, right>>, in list order                       *)
(*   exp   Power.exponent, a fractions.Fraction <<numerator, denominator>> *)
(* Python sets and dicts are sequences in insertion order; nothing below   *)
(* compares them other than through set_defeq, which ignores the order.    *)
(***************************************************************************)
EXTENDS Integers, Sequences, FiniteSets, TLC

\* ---------------------------------------------------------------- bounds
\* total number of nodes of the expressions under construction
MaxSize == 4
\* number of nested simp frames before Python raises RecursionError
MaxDepth == 12
\* total number of nodes of the expressions built from the narrow alphabet
DeepSize == 7

\* ------------------------------------------------------ fractions.Fraction
Abs(n) == IF n < 0 THEN -n ELSE n

RECURSIVE Gcd(_, _)
Gcd(a, b) == IF b = 0 THEN a ELSE Gcd(b, a % b)

\* Fraction(n, d): lowest terms, positive denominator
Fraction(n, d) ==
    LET g == Gcd(Abs(n), Abs(d))
        s == IF d < 0 THEN -1 ELSE 1
    IN  << (s * n) \div g, (s * d) \div g >>

FracMul(p, q) == Fraction(p[1] * q[1], p[2] * q[2])

FracAdd(p, q) == Fraction(p[1] * q[2] + q[1] * p[2], p[2] * q[2])

\* ------------------------------------------------------------ constructors
Obj(tag, name, value, ops, exp) ==
    [tag |-> tag, name |-> name, value |-> value, ops |-> ops, exp |-> exp]

NoExp == Fraction(1, 1)

Variable(name) == Obj("Variable", name, 0, << >>, NoExp)

Constant(value) == Obj("Constant", "", value, << >>, NoExp)

Max(operands) ==
    IF Len(operands) > 0 THEN Obj("Max", "", 0, operands, NoExp)
    ELSE Obj("AssertionError", "Max", 0, << >>, NoExp)

Min(operands) ==
    IF Len(operands) > 0 THEN Obj("Min", "", 0, operands, NoExp)
    ELSE Obj("AssertionError", "Min", 0, << >>, NoExp)

Add(summands) ==
    IF Len(summands) > 0 THEN Obj("Add", "", 0, summands, NoExp)
    ELSE Obj("AssertionError", "Add", 0, << >>, NoExp)

Mul(factors) == Obj("Mul", "", 0, factors, NoExp)

Div(numerator, denominator) == Obj("Div", "", 0, <<numerator, denominator>>, NoExp)

\* exponent is a Fraction; an int n is converted to Fraction(n, 1) by the caller
Power(base, exponent) == Obj("Power", "", 0, <<base>>, exponent)

RecursionError == Obj("RecursionError", "", 0, << >>, NoExp)

IsErr(v) == v.tag \in {"AssertionError", "RecursionError"}

\* Expression.add: flatten sums
add(self, other) ==
    Add((IF self.tag = "Add" THEN self.ops ELSE <<self>>)
        \o (IF other.tag = "Add" THEN other.ops ELSE <<other>>))

\* Expression.mul: flatten products
mul(self, other) ==
    Mul((IF self.tag = "Mul" THEN self.ops ELSE <<self>>)
        \o (IF other.tag = "Mul" THEN other.ops ELSE <<other>>))

\* ------------------------------------------------------------------ defeq
Remove(s, j) == [i \in 1..(Len(s) - 1) |-> IF i < j THEN s[i] ELSE s[i + 1]]

RECURSIVE Defeq(_, _)
RECURSIVE set_defeq(_, _)

\* two collections match iff some bijection pairs defeq elements
set_defeq(xs, ys) ==
    IF Len(xs) # Len(ys) THEN FALSE
    ELSE IF Len(xs) = 0 THEN TRUE
    ELSE \E j \in 1..Len(ys) :
            Defeq(xs[1], ys[j]) /\ set_defeq(Tail(xs), Remove(ys, j))

\* the defeq a Variable inherits: the same variable
VariableDefeq(self, other) == other.tag = "Variable" /\ other.name = self.name

ConstantDefeq(self, other) == other.tag = "Constant" /\ self.value = other.value

MaxDefeq(self, other) == other.tag = "Max" /\ set_defeq(self.ops, other.ops)

MinDefeq(self, other) == other.tag = "Min" /\ set_defeq(self.ops, other.ops)

AddDefeq(self, other) == other.tag = "Add" /\ set_defeq(self.ops, other.ops)

MulDefeq(self, other) == other.tag = "Mul" /\ set_defeq(self.ops, other.ops)

DivDefeq(self, other) ==
    other.tag = "Div" /\ Defeq(self.ops[1], other.ops[1])
                      /\ Defeq(self.ops[2], other.ops[2])

PowerDefeq(self, other) ==
    other.tag = "Power" /\ Defeq(self.ops[1], other.ops[1]) /\ self.exp = other.exp

EstimateDefeq(self, other) ==
    other.tag = "Estimate" /\ Defeq(self.ops[1], other.ops[1])
                           /\ Defeq(self.ops[2], other.ops[2])
                           /\ self.name = other.name

\* self.defeq(other), dispatched on the class of self
Defeq(self, other) ==
    CASE self.tag = "Variable" -> VariableDefeq(self, other)
      [] self.tag = "Constant" -> ConstantDefeq(self, other)
      [] self.tag = "Max"      -> MaxDefeq(self, other)
      [] self.tag = "Min"      -> MinDefeq(self, other)
      [] self.tag = "Add"      -> AddDefeq(self, other)
      [] self.tag = "Mul"      -> MulDefeq(self, other)
      [] self.tag = "Div"      -> DivDefeq(self, other)
      [] self.tag = "Power"    -> PowerDefeq(self, other)
      [] self.tag = "Estimate" -> EstimateDefeq(self, other)
      [] OTHER                 -> self = other

\* x.add_to(s): add x unless s already holds an element defeq to it
add_to(x, s) ==
    IF \E i \in 1..Len(s) : Defeq(x, s[i]) THEN s ELSE Append(s, x)

\* ------------------------------------------------------------------- simp
RECURSIVE Simp(_, _)

\* the first exception raised while the elements of s were computed, if any
FirstErr(s) ==
    IF \E i \in 1..Len(s) : IsErr(s[i])
    THEN s[CHOOSE i \in 1..Len(s) : IsErr(s[i]) /\ \A k \in 1..(i - 1) : ~IsErr(s[k])]
    ELSE Obj("None", "", 0, << >>, NoExp)

SimpAll(s, fuel) == [i \in 1..Len(s) |-> Simp(s[i], fuel)]

RECURSIVE AddAll(_, _)
AddAll(xs, acc) ==
    IF Len(xs) = 0 THEN acc ELSE AddAll(Tail(xs), add_to(xs[1], acc))

\* the loop of Max.simp / Min.simp over the simplified operands
RECURSIVE Collect(_, _, _)
Collect(ops, kind, acc) ==
    IF Len(ops) = 0 THEN acc
    ELSE Collect(Tail(ops), kind,
                 IF ops[1].tag = kind THEN AddAll(ops[1].ops, acc)
                 ELSE add_to(ops[1], acc))

VariableSimp(self) == self

ConstantSimp(self) == Constant(1)

MaxSimp(self, fuel) ==
    LET ops == SimpAll(self.ops, fuel)
        new_operands == Collect(ops, "Max", << >>)
    IN  IF IsErr(FirstErr(ops)) THEN FirstErr(ops)
        ELSE IF ~(Len(new_operands) > 0) THEN Obj("AssertionError", "Max.simp", 0, << >>, NoExp)
        ELSE IF Len(new_operands) = 1 THEN new_operands[1]
        ELSE Max(new_operands)

MinSimp(self, fuel) ==
    LET ops == SimpAll(self.ops, fuel)
        new_operands == Collect(ops, "Min", << >>)
    IN  IF IsErr(FirstErr(ops)) THEN FirstErr(ops)
        ELSE IF ~(Len(new_operands) > 0) THEN Obj("AssertionError", "Min.simp", 0, << >>, NoExp)
        ELSE IF Len(new_operands) = 1 THEN new_operands[1]
        ELSE Min(new_operands)

AddSimp(self, fuel) == Simp(Max(self.ops), fuel)

\* first phase of Mul.simp: flatten nested products and delete constants
RECURSIVE Flatten(_)
Flatten(fs) ==
    IF Len(fs) = 0 THEN << >>
    ELSE (CASE fs[1].tag = "Mul"      -> fs[1].ops
            [] fs[1].tag = "Constant" -> << >>
            [] OTHER                  -> <<fs[1]>>) \o Flatten(Tail(fs))

\* one round of the gathering loop: terms is the dict, in insertion order
GatherOne(terms, factor) ==
    LET base     == IF factor.tag = "Power" THEN factor.ops[1] ELSE factor
        exponent == IF factor.tag = "Power" THEN factor.exp ELSE Fraction(1, 1)
        hits     == {i \in 1..Len(terms) : Defeq(base, terms[i].base)}
    IN  IF hits # {}
        THEN LET b == CHOOSE i \in hits : \A k \in hits : i <= k
             IN  [terms EXCEPT ![b].exponent = FracAdd(@, exponent)]
        ELSE Append(terms, [base |-> base, exponent |-> exponent])

RECURSIVE Gather(_, _)
Gather(fs, terms) ==
    IF Len(fs) = 0 THEN terms ELSE Gather(Tail(fs), GatherOne(terms, fs[1]))

RECURSIVE DropConstants(_)
DropConstants(ms) ==
    IF Len(ms) = 0 THEN << >>
    ELSE (IF ms[1].tag = "Constant" THEN << >> ELSE <<ms[1]>>) \o DropConstants(Tail(ms))

MulSimp(self, fuel) ==
    LET fs          == SimpAll(self.ops, fuel)
        new_factors == Flatten(fs)
        terms       == Gather(new_factors, << >>)
        monomials   == [i \in 1..Len(terms) |->
                          Simp(Power(terms[i].base, terms[i].exponent), fuel)]
    IN  IF IsErr(FirstErr(fs)) THEN FirstErr(fs)
        ELSE IF IsErr(FirstErr(monomials)) THEN FirstErr(monomials)
        ELSE Mul(DropConstants(monomials))

DivSimp(self, fuel) ==
    Simp(mul(self.ops[1], Power(self.ops[2], Fraction(-1, 1))), fuel)

\* PowerSimp, the product branch raising the distributed product to the power again
PowerSimpRewrap(self, fuel) ==
    LET base == Simp(self.ops[1], fuel)
    IN  IF IsErr(base) THEN base
        ELSE IF self.exp = Fraction(1, 1) THEN base
        ELSE IF self.exp = Fraction(0, 1) \/ base.tag = "Constant" THEN Constant(1)
        ELSE IF base.tag = "Power"
             THEN Power(base.ops[1], FracMul(base.exp, self.exp))
        ELSE IF base.tag = "Mul"
             THEN Simp(Power(Mul([i \in 1..Len(base.ops) |-> Power(base.ops[i], self.exp)]),
                             self.exp), fuel)
        ELSE Power(base, self.exp)

PowerSimp(self, fuel) ==
    LET base == Simp(self.ops[1], fuel)
    IN  IF IsErr(base) THEN base
        ELSE IF self.exp = Fraction(1, 1) THEN base
        ELSE IF self.exp = Fraction(0, 1) \/ base.tag = "Constant" THEN Constant(1)
        ELSE IF base.tag = "Power"
             THEN Power(base.ops[1], FracMul(base.exp, self.exp))
        ELSE IF base.tag = "Mul"
             THEN Simp(Mul([i \in 1..Len(base.ops) |-> Power(base.ops[i], self.exp)]), fuel)
        ELSE Power(base, self.exp)

\* e.simp() entered with room for `fuel` more frames on the stack
Simp(e, fuel) ==
    IF IsErr(e) THEN e
    ELSE IF fuel = 0 THEN RecursionError
    ELSE CASE e.tag = "Variable" -> VariableSimp(e)
           [] e.tag = "Constant" -> ConstantSimp(e)
           [] e.tag = "Max"      -> MaxSimp(e, fuel - 1)
           [] e.tag = "Min"      -> MinSimp(e, fuel - 1)
           [] e.tag = "Add"      -> AddSimp(e, fuel - 1)
           [] e.tag = "Mul"      -> MulSimp(e, fuel - 1)
           [] e.tag = "Div"      -> DivSimp(e, fuel - 1)
           [] e.tag = "Power"    -> PowerSimp(e, fuel - 1)

simp(e) == Simp(e, MaxDepth)

RECURSIVE Size(_)
RECURSIVE SizeSeq(_)
SizeSeq(s) == IF Len(s) = 0 THEN 0 ELSE Size(s[1]) + SizeSeq(Tail(s))
Size(e) == 1 + SizeSeq(e.ops)


\* --------------------------------------------------------------- Estimate
Operators == {"<~", "<<", "~", ">~", ">>"}

Estimate(left, operator, right) ==
    IF operator \in Operators THEN Obj("Estimate", operator, 0, <<left, right>>, NoExp)
    ELSE Obj("AssertionError", "Estimate", 0, << >>, NoExp)

\* the boolean framework's constructors, opaque: they only hold their arguments
Bool(b) == Obj("Bool", "", IF b THEN 1 ELSE 0, << >>, NoExp)

And(conjuncts) == Obj("And", "", 0, conjuncts, NoExp)

Or(disjuncts) == Obj("Or", "", 0, disjuncts, NoExp)

\* negate with the strict and the non-strict rows of the table mixed up
negateSameStrictness(self) ==
    CASE self.name = "<~" -> Estimate(self.ops[1], ">~", self.ops[2])
      [] self.name = "<<" -> Estimate(self.ops[1], ">~", self.ops[2])
      [] self.name = "~"  -> Or(<<Estimate(self.ops[1], ">>", self.ops[2]),
                                 Estimate(self.ops[1], "<<", self.ops[2])>>)
      [] self.name = ">~" -> Estimate(self.ops[1], "<<", self.ops[2])
      [] self.name = ">>" -> Estimate(self.ops[1], "<~", self.ops[2])

negate(self) ==
    CASE self.name = "<~" -> Estimate(self.ops[1], ">>", self.ops[2])
      [] self.name = "<<" -> Estimate(self.ops[1], ">~", self.ops[2])
      [] self.name = "~"  -> Or(<<Estimate(self.ops[1], ">>", self.ops[2]),
                                 Estimate(self.ops[1], "<<", self.ops[2])>>)
      [] self.name = ">~" -> Estimate(self.ops[1], "<<", self.ops[2])
      [] self.name = ">>" -> Estimate(self.ops[1], "<~", self.ops[2])

RECURSIVE EstimateSimp(_, _)

\* EstimateSimp without the reversal of "<<"
EstimateSimpNoReversal(self, fuel) ==
    IF fuel = 0 THEN RecursionError
    ELSE IF self.name = "<~"
         THEN EstimateSimp(Estimate(self.ops[2], ">~", self.ops[1]), fuel - 1)
    ELSE LET left  == Simp(Div(self.ops[1], self.ops[2]), fuel - 1)
             right == Constant(1)
         IN  IF IsErr(left) THEN left
             ELSE IF Defeq(left, right) THEN Bool(self.name \in {"<~", ">~", "~"})
             ELSE Estimate(left, self.name, right)

\* EstimateSimp reversing the operator but not the two sides
EstimateSimpSidesKept(self, fuel) ==
    IF fuel = 0 THEN RecursionError
    ELSE IF self.name = "<~"
         THEN EstimateSimp(Estimate(self.ops[1], ">~", self.ops[2]), fuel - 1)
    ELSE IF self.name = "<<"
         THEN EstimateSimp(Estimate(self.ops[1], ">>", self.ops[2]), fuel - 1)
    ELSE LET left  == Simp(Div(self.ops[1], self.ops[2]), fuel - 1)
             right == Constant(1)
         IN  IF IsErr(left) THEN left
             ELSE IF Defeq(left, right) THEN Bool(self.name \in {"<~", ">~", "~"})
             ELSE Estimate(left, self.name, right)

\* Estimate.simp entered with room for `fuel` more frames on the stack
EstimateSimp(self, fuel) ==
    IF fuel = 0 THEN RecursionError
    ELSE IF self.name = "<~"
         THEN EstimateSimp(Estimate(self.ops[2], ">~", self.ops[1]), fuel - 1)
    ELSE IF self.name = "<<"
         THEN EstimateSimp(Estimate(self.ops[2], ">>", self.ops[1]), fuel - 1)
    ELSE LET left  == Simp(Div(self.ops[1], self.ops[2]), fuel - 1)
             right == Constant(1)
         IN  IF IsErr(left) THEN left
             ELSE IF Defeq(left, right) THEN Bool(self.name \in {"<~", ">~", "~"})
             ELSE Estimate(left, self.name, right)

estimate_simp(E) == EstimateSimp(E, MaxDepth)

\* Expression.asymp and Expression.__le__
expression_eq(self, other) == Estimate(self, "~", other)

expression_le(self, other) == Estimate(self, "<~", other)

\* itertools.combinations(args, 2): pairs of positions, in lexicographic order
RECURSIVE PairsFrom(_, _, _)
PairsFrom(i, j, n) ==
    IF i >= n THEN << >>
    ELSE IF j > n THEN PairsFrom(i + 1, i + 2, n)
    ELSE <<(<<i, j>>)>> \o PairsFrom(i, j + 1, n)

combinations(n) == PairsFrom(1, 2, n)

\* Others with every bound taken against the second expression of the pair
RECURSIVE OthersSecond(_, _, _, _)
OthersSecond(args, expr1, expr2, k) ==
    IF k > Len(args) THEN << >>
    ELSE (IF ~Defeq(args[k], expr1) /\ ~Defeq(args[k], expr2)
          THEN <<expression_le(args[k], expr2)>> ELSE << >>)
         \o OthersSecond(args, expr1, expr2, k + 1)

\* the conjuncts added for the other arguments, from position k on
RECURSIVE Others(_, _, _, _)
Others(args, expr1, expr2, k) ==
    IF k > Len(args) THEN << >>
    ELSE (IF ~Defeq(args[k], expr1) /\ ~Defeq(args[k], expr2)
          THEN <<expression_le(args[k], expr1)>> ELSE << >>)
         \o Others(args, expr1, expr2, k + 1)

\* one case of LP_property: the pair at positions p[1] < p[2]
LPCase(args, p) ==
    And(<<expression_eq(args[p[1]], args[p[2]])>>
        \o Others(args, args[p[1]], args[p[2]], 1))

LP_property(args) ==
    IF ~(Len(args) > 1) THEN Obj("AssertionError", "LP_property", 0, << >>, NoExp)
    ELSE LET pairs == combinations(Len(args))
         IN  Or([c \in 1..Len(pairs) |-> LPCase(args, pairs[c])])

\* ------------------------------------------------------------ the program
\* A caller builds expressions on a work list, then applies one operation.
Names == {"x", "y", "z"}

Values == {2}

Exponents == {Fraction(0, 1), Fraction(1, 2), Fraction(1, 1), Fraction(2, 1)}

BinaryOps == {"Max", "Min", "+", "*", "/", "Mul"}

VARIABLES stack, pc, inp, out

vars == <<stack, pc, inp, out>>

None == Obj("None", "", 0, << >>, NoExp)

Top == stack[Len(stack)]

Fits(s) == SizeSeq(s) <= MaxSize

Init ==
    /\ stack = << >>
    /\ pc = "build"
    /\ inp = None
    /\ out = None

Push(e) ==
    /\ pc = "build"
    /\ Fits(Append(stack, e))
    /\ stack' = Append(stack, e)
    /\ UNCHANGED <<pc, inp, out>>

PushVariable == \E n \in Names : Push(Variable(n))

PushConstant == \E v \in Values : Push(Constant(v))

\* top ** p
MkPower ==
    /\ pc = "build"
    /\ Len(stack) >= 1
    /\ \E p \in Exponents :
          LET s == [stack EXCEPT ![Len(stack)] = Power(Top, p)]
          IN  Fits(s) /\ stack' = s
    /\ UNCHANGED <<pc, inp, out>>

Binary(op, a, b) ==
    CASE op = "Max" -> Max(<<a, b>>)
      [] op = "Min" -> Min(<<a, b>>)
      [] op = "+"   -> add(a, b)
      [] op = "*"   -> mul(a, b)
      [] op = "/"   -> Div(a, b)
      [] op = "Mul" -> Mul(<<a, b>>)

\* the two topmost expressions are combined into one
MkBinary ==
    /\ pc = "build"
    /\ Len(stack) >= 2
    /\ \E op \in BinaryOps :
          LET n == Len(stack)
              s == Append(SubSeq(stack, 1, n - 2), Binary(op, stack[n - 1], stack[n]))
          IN  Fits(s) /\ stack' = s
    /\ UNCHANGED <<pc, inp, out>>

\* e.simp() on the topmost expression
ApplySimp ==
    /\ pc = "build"
    /\ Len(stack) = 1
    /\ inp' = Top
    /\ out' = simp(Top)
    /\ pc' = "simp"
    /\ UNCHANGED stack

\* Estimate(left, operator, right).simp() on the two expressions of the list
ApplyEstimateSimp ==
    /\ pc = "build"
    /\ Len(stack) = 2
    /\ \E o \in Operators :
          /\ inp' = Estimate(stack[1], o, stack[2])
          /\ out' = estimate_simp(Estimate(stack[1], o, stack[2]))
    /\ pc' = "estimate_simp"
    /\ UNCHANGED stack

\* Estimate(left, operator, right).negate()
ApplyNegate ==
    /\ pc = "build"
    /\ Len(stack) = 2
    /\ \E o \in Operators :
          /\ inp' = Estimate(stack[1], o, stack[2])
          /\ out' = negate(Estimate(stack[1], o, stack[2]))
    /\ pc' = "negate"
    /\ UNCHANGED stack

\* LP_property(*stack)
ApplyLP ==
    /\ pc = "build"
    /\ Len(stack) >= 1
    /\ inp' = Obj("Args", "", 0, stack, NoExp)
    /\ out' = LP_property(stack)
    /\ pc' = "LP_property"
    /\ UNCHANGED stack

Next ==
    \/ PushVariable
    \/ PushConstant
    \/ MkPower
    \/ MkBinary
    \/ ApplySimp
    \/ ApplyEstimateSimp
    \/ ApplyNegate
    \/ ApplyLP

Spec == Init /\ [][Next]_vars

\* The same caller with a narrow alphabet (one variable, two exponents, Max
\* and *), which lets it build larger expressions before it applies simp.
DeepNames == {"x"}

DeepExponents == {Fraction(1, 2), Fraction(2, 1)}

DeepOps == {"Max", "*"}

DeepFits(s) == SizeSeq(s) <= DeepSize

DeepPushVariable ==
    /\ pc = "build"
    /\ \E n \in DeepNames :
          /\ DeepFits(Append(stack, Variable(n)))
          /\ stack' = Append(stack, Variable(n))
    /\ UNCHANGED <<pc, inp, out>>

DeepMkPower ==
    /\ pc = "build"
    /\ Len(stack) >= 1
    /\ \E p \in DeepExponents :
          LET s == [stack EXCEPT ![Len(stack)] = Power(Top, p)]
          IN  DeepFits(s) /\ stack' = s
    /\ UNCHANGED <<pc, inp, out>>

DeepMkBinary ==
    /\ pc = "build"
    /\ Len(stack) >= 2
    /\ \E op \in DeepOps :
          LET n == Len(stack)
              s == Append(SubSeq(stack, 1, n - 2), Binary(op, stack[n - 1], stack[n]))
          IN  DeepFits(s) /\ stack' = s
    /\ UNCHANGED <<pc, inp, out>>

NextDeep ==
    \/ DeepPushVariable
    \/ DeepMkPower
    \/ DeepMkBinary
    \/ ApplySimp

SpecDeep == Init /\ [][NextDeep]_vars

\* ------------------------------------------------------------- properties
Two == Fraction(2, 1)

\* the expressions x with x * x = m
Roots(m) ==
    LET n == Len(m.ops)
    IN  {x \in (IF n = 2 THEN {m.ops[1]} ELSE {})
               \cup (IF n % 2 = 0 THEN {Mul(SubSeq(m.ops, 1, n \div 2))} ELSE {}) :
            mul(x, x) = m}

\* s and t hold the same elements the same number of times
SameBag(s, t) ==
    /\ Len(s) = Len(t)
    /\ \A i \in 1..Len(s) :
          Cardinality({k \in 1..Len(s) : s[k] = s[i]})
            = Cardinality({k \in 1..Len(t) : t[k] = s[i]})

\* C1: simp is idempotent, simp(simp(e)) is defeq to simp(e)
C1_Idempotent ==
    pc = "simp" => Defeq(simp(out), out)

\* C2: an estimate of an expression against itself simplifies to a boolean:
\* a >~ a to true, a >> a to false
C2_SelfComparison ==
    (pc = "estimate_simp" /\ inp.ops[1] = inp.ops[2]) =>
        /\ inp.name = ">~" => out = Bool(TRUE)
        /\ inp.name = ">>" => out = Bool(FALSE)

\* C3: for a variable x, simp(x / x) is defeq to Constant(1), in both orders
C3_QuotientCancels ==
    (pc = "simp" /\ inp.tag = "Div" /\ inp.ops[1].tag = "Variable"
                 /\ inp.ops[1] = inp.ops[2]) =>
        Defeq(out, Constant(1)) /\ Defeq(Constant(1), out)

\* C4: simp(x * x) is defeq to simp(Power(x, 2))
C4_SquareIsPower ==
    (pc = "simp" /\ inp.tag = "Mul") =>
        \A x \in Roots(inp) : Defeq(out, simp(Power(x, Two)))

\* C5: simp(Power(Power(x, p), q)) is defeq to simp(Power(x, p*q))
C5_NestedPower ==
    (pc = "simp" /\ inp.tag = "Power" /\ inp.ops[1].tag = "Power") =>
        Defeq(out, simp(Power(inp.ops[1].ops[1], FracMul(inp.ops[1].exp, inp.exp))))

Reduced == {">~", ">>", "~"}

Flip(o) ==
    CASE o = "<~" -> ">~"
      [] o = "<<" -> ">>"
      [] OTHER    -> o

Negated(o) ==
    CASE o = "<~" -> ">>"
      [] o = "<<" -> ">~"
      [] o = ">~" -> "<<"
      [] o = ">>" -> "<~"
      [] OTHER    -> o

\* C6 as stated: Estimate.simp returns a boolean, or an Estimate against
\* Constant(1) whose operator is one of <~, >~, ~
C6_CanonicalAsStated ==
    pc = "estimate_simp" =>
        \/ out.tag = "Bool"
        \/ /\ out.tag = "Estimate"
           /\ out.ops[2] = Constant(1)
           /\ out.name \in {"<~", ">~", "~"}

\* C6 amended: Estimate.simp returns a boolean, or an Estimate against
\* Constant(1) whose operator is one of >~, >>, ~: the operator given, with
\* <~ turned into >~ and << into >>
C6_Canonical ==
    pc = "estimate_simp" =>
        \/ out.tag = "Bool"
        \/ /\ out.tag = "Estimate"
           /\ out.ops[2] = Constant(1)
           /\ out.name \in Reduced
           /\ out.name = Flip(inp.name)

C6_Witness ==
    /\ pc = "estimate_simp"
    /\ inp.name = "<<"
    /\ out.tag = "Estimate"
    /\ out.name = ">>"
    /\ out.ops[2] = Constant(1)

\* C7: negate follows the table <~ to >>, << to >~, >~ to <<, >> to <~ and
\* keeps both sides, so negating twice gives an Estimate defeq to the first
C7_NegateInvolution ==
    (pc = "negate" /\ inp.name \in {"<~", "<<", ">~", ">>"}) =>
        /\ out.tag = "Estimate"
        /\ out.name = Negated(inp.name)
        /\ out.ops = inp.ops
        /\ Defeq(negate(out), inp)
        /\ Defeq(inp, negate(out))

C7_Witness ==
    /\ pc = "negate"
    /\ inp.name = "<<"
    /\ inp.ops[1].tag = "Power"
    /\ out.name = ">~"
    /\ negate(out).name = "<<"

\* the conjuncts the claim gives the pair at positions i < j: arg_i ~ arg_j,
\* and arg_k <~ arg_i for the positions k in ks
RECURSIVE Bounds(_, _, _, _)
Bounds(args, i, ks, k) ==
    IF k > Len(args) THEN << >>
    ELSE (IF k \in ks THEN <<Estimate(args[k], "<~", args[i])>> ELSE << >>)
         \o Bounds(args, i, ks, k + 1)

OtherPositions(args, i, j) == (1..Len(args)) \ {i, j}

UnlikePositions(args, i, j) ==
    {k \in 1..Len(args) : ~Defeq(args[k], args[i]) /\ ~Defeq(args[k], args[j])}

\* the place of the pair i < j among the pairs of 1..n in the order of
\* itertools.combinations
PairIndex(n, i, j) == (i - 1) * n - ((i * (i - 1)) \div 2) + (j - i)

\* out is a disjunction with one disjunct per pair of positions, the one of
\* the pair i < j holding arg_i ~ arg_j and the bounds of the other positions:
\* all of them, or (unlike) those whose argument is defeq to neither of the pair
LPShape(unlike) ==
    LET args == inp.ops
        n    == Len(args)
    IN  /\ out.tag = "Or"
        /\ Len(out.ops) = (n * (n - 1)) \div 2
        /\ \A i, j \in 1..n : i < j =>
              LET case == out.ops[PairIndex(n, i, j)]
              IN  /\ case.tag = "And"
                  /\ SameBag(case.ops,
                             <<Estimate(args[i], "~", args[j])>>
                             \o Bounds(args, i,
                                       IF unlike THEN UnlikePositions(args, i, j)
                                       ELSE OtherPositions(args, i, j), 1))

\* C8 as stated: for n >= 3 arguments, one disjunct per pair of positions
\* {i, j}, made of arg_i ~ arg_j and arg_k <~ arg_i for every other position
\* k: n - 1 conjuncts
C8_LPAsStated ==
    (pc = "LP_property" /\ Len(inp.ops) >= 3) =>
        /\ LPShape(FALSE)
        /\ \A c \in 1..Len(out.ops) : Len(out.ops[c].ops) = Len(inp.ops) - 1

\* C8 amended: for n >= 3 arguments, one disjunct per pair of positions
\* {i, j}, made of arg_i ~ arg_j and arg_k <~ arg_i for every position k whose
\* argument is defeq neither to arg_i nor to arg_j; these are n - 1 conjuncts
\* when no two arguments are defeq
C8_LP ==
    (pc = "LP_property" /\ Len(inp.ops) >= 3) =>
        /\ LPShape(TRUE)
        /\ (\A i, j \in 1..Len(inp.ops) : i # j => ~Defeq(inp.ops[i], inp.ops[j]))
             => \A c \in 1..Len(out.ops) : Len(out.ops[c].ops) = Len(inp.ops) - 1

C8_Witness ==
    /\ pc = "LP_property"
    /\ inp.ops = <<Variable("x"), Variable("y"), Variable("z")>>
    /\ Len(out.ops) = 3
    /\ \A c \in 1..3 : Len(out.ops[c].ops) = 2

\* C9: a <~ b and b >~ a simplify to defeq results, and so do a << b and
\* b >> a
C9_Orientation ==
    (pc = "estimate_simp" /\ inp.name \in {"<~", "<<"}) =>
        LET mirror == estimate_simp(Estimate(inp.ops[2], Flip(inp.name), inp.ops[1]))
        IN  Defeq(out, mirror) /\ Defeq(mirror, out)

C9_Witness ==
    /\ pc = "estimate_simp"
    /\ inp.name = "<~"
    /\ ~Defeq(inp.ops[1], inp.ops[2])
    /\ out.tag = "Estimate"
    /\ out.name = ">~"
    /\ Len(out.ops[1].ops) = 2

\* C10: simp of an Expression or an Estimate returns: no frame budget is
\* exhausted and no assertion fires
C10_Total ==
    pc \in {"simp", "estimate_simp"} =>
        /\ ~IsErr(out)
        /\ pc = "simp" => out.tag \in {"Variable", "Constant", "Max", "Min", "Mul", "Power"}
        /\ pc = "estimate_simp" => out.tag \in {"Bool", "Estimate"}

\* the reversal step, then Div.simp, Mul.simp, Power.simp of a product, Mul.simp
C10_Witness ==
    /\ pc = "estimate_simp"
    /\ inp.name = "<~"
    /\ inp.ops[1].tag = "Mul"
    /\ Len(inp.ops[1].ops) = 2
    /\ out.tag = "Estimate"
    /\ Len(out.ops[1].ops) = 3

\* the base under which Mul.simp gathers a factor
BaseOf(factor) == IF factor.tag = "Power" THEN factor.ops[1] ELSE factor

\* C11: the factors of a simplified product hold no Constant, no Mul, no
\* Power with exponent 0 or 1, and no two factors with defeq bases
C11_ProductShape ==
    (pc = "simp" /\ inp.tag = "Mul") =>
        /\ out.tag = "Mul"
        /\ \A i \in 1..Len(out.ops) :
              /\ out.ops[i].tag \notin {"Constant", "Mul"}
              /\ out.ops[i].tag = "Power" =>
                    out.ops[i].exp \notin {Fraction(0, 1), Fraction(1, 1)}
        /\ \A i, j \in 1..Len(out.ops) :
              i < j => ~Defeq(BaseOf(out.ops[i]), BaseOf(out.ops[j]))

====
